---- MODULE Spec2Model ----
(***************************************************************************)
(* Model of the Moonraker monitor action (src/src/actions/                 *)
(* moonraker-action.ts): the per-instance polling scheduler, the fetch     *)
(* pipeline and the key display.  Every async call of a handler or timer   *)
(* callback is a task whose pc is the await it is suspended at; one action *)
(* runs a handler up to its first await, or resumes one await.             *)
(***************************************************************************)
EXTENDS Integers, Sequences, FiniteSets, Bags, TLC

\* ------------------------------------------------------------------ bounds
MaxTasks == 2
MaxEvents == 2

\* ------------------------------------------------------------------ values
Ids == {"a"}
NoTimer == 0
NoId == "none"
EmptyObject == [x \in {} |-> x]

Has(r, f) == f \in DOMAIN r

\* The settings bags the host hands over (appeared / settings-changed).
SettingsValues ==
  { [baseUrl |-> "printer.local", pollingInterval |-> 5, displayPrintStatus |-> TRUE],
    [baseUrl |-> "http://10.0.0.2/", port |-> "7125", apiKey |-> "k",
     pollingInterval |-> 10, displayBedTemp |-> TRUE],
    EmptyObject,
    [baseUrl |-> "", pollingInterval |-> 5],
    [pollingInterval |-> 5],
    [baseUrl |-> "printer.local"],
    [baseUrl |-> "printer.local", pollingInterval |-> 0],
    [baseUrl |-> "printer.local", pollingInterval |-> 0 - 1] }

\* HTTP status codes of a response that is not ok.
ErrorStatuses == {401}

\* The decoded printer status object (data.result.status) the polled
\* server sends; numbers are kept in tenths.
Snapshots ==
  { [print_stats |-> [state |-> "printing"],
     heater_bed |-> [temperature |-> 596, target |-> 600]] }

\* What response.json() resolves to: any decoded JSON value of the shapes
\* the code distinguishes.
Bodies ==
  { EmptyObject, [result |-> EmptyObject] } \cup { [result |-> [status |-> s]] : s \in Snapshots }

\* ------------------------------------------------------------------ isValidSettings
\* isValidSettings without the tests of pollingInterval
isValidSettingsNoInterval(settings) ==
  Has(settings, "baseUrl") /\ settings.baseUrl # ""

isValidSettings(settings) ==
  /\ Has(settings, "baseUrl") /\ settings.baseUrl # ""
  /\ Has(settings, "pollingInterval") /\ settings.pollingInterval # 0
  /\ settings.pollingInterval > 0

\* ------------------------------------------------------------------ the request
\* String.prototype.startsWith / endsWith / slice(0, -1)
startsWith(s, prefix) == Len(s) >= Len(prefix) /\ SubSeq(s, 1, Len(prefix)) = prefix

endsWith(s, suffix) ==
  Len(s) >= Len(suffix) /\ SubSeq(s, Len(s) - Len(suffix) + 1, Len(s)) = suffix

dropLast(s) == SubSeq(s, 1, Len(s) - 1)

QueryPath == "/printer/objects/query?print_stats&heater_bed&extruder&display_status&virtual_sdcard"

\* the request with the trailing slash removed whether or not a port is set
buildRequestAlwaysStrips(settings) ==
  LET base == IF endsWith(settings.baseUrl, "/") THEN dropLast(settings.baseUrl)
              ELSE settings.baseUrl
      withPort == IF Has(settings, "port") /\ settings.port # ""
                    THEN base \o ":" \o settings.port
                    ELSE base
      url == IF ~startsWith(withPort, "http://") /\ ~startsWith(withPort, "https://")
               THEN "http://" \o withPort ELSE withPort
      key == IF Has(settings, "apiKey") /\ settings.apiKey # ""
               THEN "X-Api-Key" :> settings.apiKey ELSE EmptyObject
  IN [endpoint |-> url \o QueryPath,
      headers |-> ("Content-Type" :> "application/json") @@ key]

\* The endpoint and the headers fetchDataAndUpdateKey hands to fetch.
buildRequest(settings) ==
  LET withPort == IF Has(settings, "port") /\ settings.port # ""
                    THEN (IF endsWith(settings.baseUrl, "/") THEN dropLast(settings.baseUrl)
                          ELSE settings.baseUrl) \o ":" \o settings.port
                    ELSE settings.baseUrl
      url == IF ~startsWith(withPort, "http://") /\ ~startsWith(withPort, "https://")
               THEN "http://" \o withPort ELSE withPort
      key == IF Has(settings, "apiKey") /\ settings.apiKey # ""
               THEN "X-Api-Key" :> settings.apiKey ELSE EmptyObject
  IN [endpoint |-> url \o QueryPath,
      headers |-> ("Content-Type" :> "application/json") @@ key]

\* ------------------------------------------------------------------ updateKeyDisplay
\* String.prototype.toLowerCase on the state strings of the model.
toLowerCase(s) ==
  CASE s = "Printing" -> "printing"
    [] s = "PAUSED" -> "paused"
    [] s = "Standby" -> "standby"
    [] OTHER -> s

\* charAt(0).toUpperCase() + slice(1) on a lower-cased state.
Capitalize(s) ==
  CASE s = "standby" -> "Standby"
    [] s = "printing" -> "Printing"
    [] s = "paused" -> "Paused"
    [] s = "complete" -> "Complete"
    [] s = "error" -> "Error"
    [] s = "idle" -> "Idle"
    [] s = "cancelled" -> "Cancelled"
    [] OTHER -> s

\* Math.round of a number kept in tenths: floor(x + 0.5).
MathRound(tenths) == (tenths + 5) \div 10

\* `${Math.round(x)}`: an absent number formats as NaN.
RoundedText(r, f) == IF Has(r, f) THEN ToString(MathRound(r[f])) ELSE "NaN"

\* message.match(/Layer\s*(\d+)\s*\/\s*(\d+)/i) on the messages of the model.
LayerMatch(message) ==
  CASE message = "Layer 3/10" -> <<"3", "10">>
    [] message = "LAYER 7 / 20" -> <<"7", "20">>
    [] OTHER -> <<>>

\* message.toLowerCase().includes("layer")
IncludesLayer(message) ==
  message \in {"Layer 3/10", "LAYER 7 / 20", "layer change"}

Toggle(settings, f) == Has(settings, f) /\ settings[f]

\* status.print_stats?.state?.toLowerCase(); "" stands for undefined, which
\* every later test treats like the empty string.
currentPrintState(status) ==
  IF Has(status, "print_stats") /\ Has(status.print_stats, "state")
    THEN toLowerCase(status.print_stats.state)
    ELSE ""

displayablePrintState(status) ==
  LET cur == currentPrintState(status)
      cap == IF cur # "" THEN Capitalize(cur) ELSE "Unknown"
  IN IF cap = "Standby" THEN "Idle" ELSE cap

IsActivePrint(status) == currentPrintState(status) \in {"printing", "paused"}

layerText(status) ==
  LET info == IF Has(status, "print_stats") /\ Has(status.print_stats, "info")
                THEN status.print_stats.info ELSE EmptyObject
      msg == IF Has(status, "display_status") /\ Has(status.display_status, "message")
               THEN status.display_status.message ELSE ""
  IN IF Has(info, "current_layer") /\ Has(info, "total_layer")
       THEN "L:" \o ToString(info.current_layer) \o "/" \o ToString(info.total_layer)
       ELSE IF msg # "" /\ IncludesLayer(msg) /\ LayerMatch(msg) # <<>>
              THEN "L:" \o LayerMatch(msg)[1] \o "/" \o LayerMatch(msg)[2]
              ELSE ""

\* titleLines without the fallback for an empty list
titleLinesNoFallback(status, settings) ==
  LET l1 == IF Toggle(settings, "displayPrintStatus") /\ currentPrintState(status) # ""
              THEN <<displayablePrintState(status)>> ELSE <<>>
      l2 == IF Toggle(settings, "displayBedTemp") /\ Has(status, "heater_bed")
              THEN <<"B:" \o RoundedText(status.heater_bed, "temperature") \o "/"
                      \o RoundedText(status.heater_bed, "target") \o "°">>
              ELSE <<>>
      l3 == IF Toggle(settings, "displayHotendTemp") /\ Has(status, "extruder")
              THEN <<"H:" \o RoundedText(status.extruder, "temperature") \o "/"
                      \o RoundedText(status.extruder, "target") \o "°">>
              ELSE <<>>
      l4 == IF /\ Toggle(settings, "displayPrintProgress")
               /\ Has(status, "virtual_sdcard") /\ Has(status.virtual_sdcard, "progress")
               /\ IsActivePrint(status)
              THEN <<ToString(MathRound(status.virtual_sdcard.progress)) \o "%">>
              ELSE <<>>
      l5 == IF Toggle(settings, "displayLayerInfo") /\ IsActivePrint(status)
               /\ layerText(status) # ""
              THEN <<layerText(status)>> ELSE <<>>
  IN l1 \o l2 \o l3 \o l4 \o l5

titleLines(status, settings) ==
  LET l1 == IF Toggle(settings, "displayPrintStatus") /\ currentPrintState(status) # ""
              THEN <<displayablePrintState(status)>> ELSE <<>>
      l2 == IF Toggle(settings, "displayBedTemp") /\ Has(status, "heater_bed")
              THEN <<"B:" \o RoundedText(status.heater_bed, "temperature") \o "/"
                      \o RoundedText(status.heater_bed, "target") \o "°">>
              ELSE <<>>
      l3 == IF Toggle(settings, "displayHotendTemp") /\ Has(status, "extruder")
              THEN <<"H:" \o RoundedText(status.extruder, "temperature") \o "/"
                      \o RoundedText(status.extruder, "target") \o "°">>
              ELSE <<>>
      l4 == IF /\ Toggle(settings, "displayPrintProgress")
               /\ Has(status, "virtual_sdcard") /\ Has(status.virtual_sdcard, "progress")
               /\ IsActivePrint(status)
              THEN <<ToString(MathRound(status.virtual_sdcard.progress)) \o "%">>
              ELSE <<>>
      l5 == IF Toggle(settings, "displayLayerInfo") /\ IsActivePrint(status)
               /\ layerText(status) # ""
              THEN <<layerText(status)>> ELSE <<>>
      all == l1 \o l2 \o l3 \o l4 \o l5
  IN IF all # <<>> THEN all
     ELSE IF currentPrintState(status) # ""
            THEN <<displayablePrintState(status)>>
            ELSE <<"No Data">>

RECURSIVE Join(_)
\* titleLines.join('\n')
Join(lines) ==
  IF lines = <<>> THEN ""
  ELSE IF Len(lines) = 1 THEN lines[1]
  ELSE lines[1] \o "\n" \o Join(Tail(lines))

DefaultImage == "default"

\* path.join('imgs', 'actions', 'moonraker', iconFileName)
getIconRelativePath(iconFileName) == "imgs/actions/moonraker/" \o iconFileName

\* the switch without `case 'idle'`
iconForWithoutIdle(status) ==
  LET cur == currentPrintState(status)
  IN CASE cur = "standby" -> getIconRelativePath("icon_printer_standby.png")
       [] cur = "printing" -> getIconRelativePath("icon_printer_printing.png")
       [] cur = "paused" -> getIconRelativePath("icon_printer_paused.png")
       [] cur = "complete" -> getIconRelativePath("icon_printer_complete.png")
       [] cur = "error" -> getIconRelativePath("icon_printer_error.png")
       [] OTHER -> DefaultImage

\* The switch on currentPrintState: the image handed to setImage.
iconFor(status) ==
  LET cur == currentPrintState(status)
  IN CASE cur \in {"standby", "idle"} -> getIconRelativePath("icon_printer_standby.png")
       [] cur = "printing" -> getIconRelativePath("icon_printer_printing.png")
       [] cur = "paused" -> getIconRelativePath("icon_printer_paused.png")
       [] cur = "complete" -> getIconRelativePath("icon_printer_complete.png")
       [] cur = "error" -> getIconRelativePath("icon_printer_error.png")
       [] OTHER -> DefaultImage

\* ------------------------------------------------------------------ state
VARIABLES
  actionStates,  \* the Map: instance id -> [settings, timerId]
  timers,        \* every setInterval timer ever created: [id, period, active]
  tasks,         \* the suspended async calls (a bag)
  last,          \* the step just taken and the calls it made to the key
  events         \* host events delivered so far

vars == <<actionStates, timers, tasks, last, events>>

IdleTask ==
  [kind |-> "none", id |-> NoId, settings |-> EmptyObject, pc |-> "idle",
   nfetch |-> 0, npresent |-> 0, icon |-> DefaultImage]

\* The program state a step works on; cur is the call that is running.
World ==
  [actionStates |-> actionStates, timers |-> timers, tasks |-> tasks,
   cur |-> IdleTask, last |-> last]

\* What a step is and did: the event or await (ev), the instance, the
\* handler of the call that ran (kind), the timer that fired or was created,
\* the settings the host handed over, whether the call settled, the calls the
\* step made (fetched, titles, images), the instances whose key they were
\* made on (targets), the endpoint and headers of the fetch (request), what
\* updateKeyDisplay was given and computed (render) and, of a settled call,
\* how many fetches and setTitle calls it made in all.
Step(ev, id, timer, settings) ==
  [ev |-> ev, id |-> id, kind |-> "none", timer |-> timer, settings |-> settings,
   result |-> "pending", nfetch |-> 0, npresent |-> 0, fetched |-> FALSE,
   titles |-> <<>>, images |-> <<>>, targets |-> {},
   request |-> EmptyObject, render |-> EmptyObject]

\* The step is over: the running call, unless it settled, is suspended.
Commit(w) ==
  LET suspended == IF w.cur.pc = "idle" THEN w.tasks ELSE w.tasks (+) SetToBag({w.cur})
  IN /\ BagCardinality(suspended) <= MaxTasks
     /\ actionStates' = w.actionStates
     /\ timers' = w.timers
     /\ tasks' = suspended
     /\ last' = w.last

Known(w, id) == id \in DOMAIN w.actionStates

\* ------------------------------------------------------------------ helpers of the class
Call(w, kind, id, settings) ==
  [w EXCEPT !.cur = [kind |-> kind, id |-> id, settings |-> settings, pc |-> "run",
                     nfetch |-> 0, npresent |-> 0, icon |-> DefaultImage],
            !.last.kind = kind]

\* The running async call settles (returns or throws).
Settle(w, result) ==
  [w EXCEPT !.cur = IdleTask,
            !.last.kind = w.cur.kind,
            !.last.result = result,
            !.last.nfetch = w.cur.nfetch,
            !.last.npresent = w.cur.npresent]

\* await action.setTitle(text), up to the await
setTitle(w, text, pc) ==
  [w EXCEPT !.last.titles = Append(@, text),
            !.last.targets = @ \cup {w.cur.id},
            !.cur.npresent = @ + 1,
            !.cur.pc = pc]

\* stopPollingForAction clearing the timers of every instance
stopPollingForEveryAction(w, actionId) ==
  LET w1 == [w EXCEPT !.timers = [t \in DOMAIN @ |-> [@[t] EXCEPT !.active = FALSE]]]
  IN IF Known(w1, actionId)
       THEN [w1 EXCEPT !.actionStates[actionId].timerId = NoTimer]
       ELSE w1

\* stopPollingForAction without clearInterval
stopPollingKeepsTimer(w, actionId) ==
  IF Known(w, actionId) /\ w.actionStates[actionId].timerId # NoTimer
    THEN [w EXCEPT !.actionStates[actionId].timerId = NoTimer]
    ELSE w

stopPollingForAction(w, actionId) ==
  IF Known(w, actionId) /\ w.actionStates[actionId].timerId # NoTimer
    THEN [w EXCEPT !.timers[w.actionStates[actionId].timerId].active = FALSE,
                   !.actionStates[actionId].timerId = NoTimer]
    ELSE w

\* fetchDataAndUpdateKey up to its first await
fetchDataAndUpdateKey(w) ==
  IF ~isValidSettings(w.cur.settings)
    THEN setTitle(w, "Settings\nInvalid", "invTitle")
    ELSE [w EXCEPT !.cur.pc = "fetch", !.cur.nfetch = @ + 1, !.last.fetched = TRUE,
                   !.last.request = buildRequest(w.cur.settings)]

\* applySettingsAndStartPolling up to its first await
applySettingsAndStartPolling(w) ==
  LET w1 == stopPollingForAction(w, w.cur.id)
  IN IF isValidSettings(w1.cur.settings)
       THEN fetchDataAndUpdateKey(w1)
       ELSE setTitle(w1, "Settings\nRequired", "reqTitle")

\* startPolling without the write of the timer's identity into the record
startPollingForgetsHandle(w) ==
  LET id == w.cur.id
      settings == w.cur.settings
      intervalSeconds == IF Has(settings, "pollingInterval") /\ settings.pollingInterval # 0
                           THEN settings.pollingInterval ELSE 5
      timerId == Len(w.timers) + 1
      w1 == [w EXCEPT !.timers = Append(@, [id |-> id, period |-> intervalSeconds * 1000,
                                            active |-> TRUE]),
                      !.last.timer = timerId]
  IN Settle(w1, "returned")

\* applySettingsAndStartPolling after the initial fetch: setInterval, then
\* the write of the new timer's identity into the record (a TypeError when
\* the record is gone).
startPolling(w) ==
  LET id == w.cur.id
      settings == w.cur.settings
      intervalSeconds == IF Has(settings, "pollingInterval") /\ settings.pollingInterval # 0
                           THEN settings.pollingInterval ELSE 5
      timerId == Len(w.timers) + 1
      w1 == [w EXCEPT !.timers = Append(@, [id |-> id, period |-> intervalSeconds * 1000,
                                            active |-> TRUE]),
                      !.last.timer = timerId]
  IN IF Known(w1, id)
       THEN Settle([w1 EXCEPT !.actionStates[id].timerId = timerId], "returned")
       ELSE Settle(w1, "threw")

\* fetchDataAndUpdateKey returns: its caller goes on.
returnToCaller(w) ==
  IF w.cur.kind \in {"appear", "settings"}
    THEN startPolling(w)
    ELSE Settle(w, "returned")

\* ------------------------------------------------------------------ handlers
onWillAppear(w, actionId, settings) ==
  LET w1 == [w EXCEPT !.actionStates =
                 (actionId :> [settings |-> settings, timerId |-> NoTimer]) @@ @]
  IN applySettingsAndStartPolling(Call(w1, "appear", actionId, settings))

onWillDisappear(w, actionId) ==
  LET w1 == stopPollingForAction(w, actionId)
  IN [w1 EXCEPT !.actionStates = [k \in (DOMAIN @) \ {actionId} |-> @[k]],
                !.last.result = "returned"]

onDidReceiveSettings(w, actionId, newSettings) ==
  LET w1 == IF Known(w, actionId)
              THEN [w EXCEPT !.actionStates[actionId].settings = newSettings]
              ELSE [w EXCEPT !.actionStates =
                        (actionId :> [settings |-> newSettings, timerId |-> NoTimer]) @@ @]
  IN applySettingsAndStartPolling(Call(w1, "settings", actionId, newSettings))

\* onKeyDown going through the re-evaluation instead of one fetch
onKeyDownRestartsPolling(w, actionId) ==
  IF Known(w, actionId)
    THEN applySettingsAndStartPolling(
           Call(w, "keydown", actionId, w.actionStates[actionId].settings))
    ELSE [w EXCEPT !.last.result = "returned"]

\* onKeyDown with the fallback of onDidReceiveSettings for an unknown id
onKeyDownCreatesRecord(w, actionId) ==
  LET w1 == IF Known(w, actionId) THEN w
            ELSE [w EXCEPT !.actionStates =
                      (actionId :> [settings |-> EmptyObject, timerId |-> NoTimer]) @@ @]
  IN fetchDataAndUpdateKey(
       Call(w1, "keydown", actionId, w1.actionStates[actionId].settings))

onKeyDown(w, actionId) ==
  IF Known(w, actionId)
    THEN fetchDataAndUpdateKey(
           Call(w, "keydown", actionId, w.actionStates[actionId].settings))
    ELSE [w EXCEPT !.last.result = "returned"]

\* the callback without the comparison of timer identities
intervalCallbackUnguarded(w, timerId) ==
  LET actionId == w.timers[timerId].id
  IN IF Known(w, actionId)
       THEN fetchDataAndUpdateKey(
              Call(w, "tick", actionId, w.actionStates[actionId].settings))
       ELSE [w EXCEPT !.last.result = "returned"]

\* the callback handed to setInterval
intervalCallback(w, timerId) ==
  LET actionId == w.timers[timerId].id
  IN IF Known(w, actionId) /\ w.actionStates[actionId].timerId = timerId
       THEN fetchDataAndUpdateKey(
              Call(w, "tick", actionId, w.actionStates[actionId].settings))
       ELSE [w EXCEPT !.last.result = "returned"]

\* ------------------------------------------------------------------ the fetch pipeline
\* the catch block of fetchDataAndUpdateKey
\* the catch block giving up polling
catchBlockStopsPolling(w) ==
  setTitle(stopPollingForAction(w, w.cur.id), "Fetch\nError", "catchTitle")

\* the catch block without its setTitle
catchBlockSilent(w) == [w EXCEPT !.cur.pc = "catchTitle"]

catchBlock(w) == setTitle(w, "Fetch\nError", "catchTitle")

\* `if (!response.ok)`: the title of a failed response
errorResponse(w, response) ==
  setTitle(w, "Error:\n" \o ToString(response.status), "errTitle")

\* await fetch(endpoint, { headers }) resolved
fetchResolved(w, response) ==
  IF ~response.ok
    THEN errorResponse(w, response)
    ELSE [w EXCEPT !.cur.pc = "json"]

\* updateKeyDisplay up to `await action.setTitle(titleLines.join('\n'))`
updateKeyDisplay(w, status) ==
  [setTitle(w, Join(titleLines(status, w.cur.settings)), "okTitle")
     EXCEPT !.cur.icon = iconFor(status),
            !.last.render = [status |-> status, settings |-> w.cur.settings,
                             lines |-> titleLines(status, w.cur.settings),
                             image |-> iconFor(status)]]

\* await response.json() resolved with data; data.result.status is read
\* and handed to updateKeyDisplay, whose first line reads status.print_stats.
jsonResolved(w, data) ==
  IF ~Has(data, "result") \/ ~Has(data.result, "status")
    THEN catchBlock(w)
    ELSE updateKeyDisplay(w, data.result.status)

\* await action.setImage(...), up to the await
setImage(w) ==
  [w EXCEPT !.last.images = Append(@, w.cur.icon),
            !.last.targets = @ \cup {w.cur.id},
            !.cur.pc = "okImage"]

Responses ==
  { [ok |-> TRUE, status |-> 200] } \cup { [ok |-> FALSE, status |-> s] : s \in ErrorStatuses }

\* ------------------------------------------------------------------ actions
Init ==
  /\ actionStates = EmptyObject
  /\ timers = <<>>
  /\ tasks = EmptyBag
  /\ last = Step("init", NoId, NoTimer, EmptyObject)
  /\ events = 0

\* a host event or a timer starts a step
Begin(ev, id, timer, settings) == [World EXCEPT !.last = Step(ev, id, timer, settings)]

\* an await of a suspended call is over: the call runs again
Resume(task, ev) ==
  [World EXCEPT !.tasks = @ (-) SetToBag({task}),
                !.cur = task,
                !.last = [Step(ev, task.id, NoTimer, EmptyObject) EXCEPT !.kind = task.kind]]

Suspended(pcs) == {task \in BagToSet(tasks) : task.pc \in pcs}

\* one more host event, while the budget lasts
Host == events < MaxEvents /\ events' = events + 1

Internal == UNCHANGED events

WillAppear(ids, values) ==
  \E id \in ids, settings \in values :
    Host /\ Commit(onWillAppear(Begin("appear", id, NoTimer, settings), id, settings))

WillDisappear(ids) ==
  \E id \in ids :
    Host /\ Known(World, id) /\ Commit(onWillDisappear(Begin("disappear", id, NoTimer, EmptyObject), id))

DidReceiveSettings(ids, values) ==
  \E id \in ids, settings \in values :
    Host /\ Commit(onDidReceiveSettings(Begin("settings", id, NoTimer, settings), id, settings))

KeyDown(ids) ==
  \E id \in ids :
    Host /\ Commit(onKeyDown(Begin("keydown", id, NoTimer, EmptyObject), id))

\* The timer t, created and not cleared, fires.
TimerFire(t) ==
  /\ t \in 1..Len(timers)
  /\ timers[t].active
  /\ Internal
  /\ Commit(intervalCallback(Begin("tick", timers[t].id, t, EmptyObject), t))

\* A timer that was not cleared fires.
TimerFires == \E t \in 1..Len(timers) : TimerFire(t)

FetchRejects ==
  \E task \in Suspended({"fetch"}) :
    Internal /\ Commit(catchBlock(Resume(task, "fetchRejected")))

FetchResolves ==
  \E task \in Suspended({"fetch"}), response \in Responses :
    Internal /\ Commit(fetchResolved(
                  Resume(task, IF response.ok THEN "fetchOk" ELSE "fetchHttpError"), response))

\* setTitle(`Error:...`) is done: response.text() is awaited
ErrorTitleSent ==
  \E task \in Suspended({"errTitle"}) :
    Internal /\ Commit([Resume(task, "errTitle") EXCEPT !.cur.pc = "errText"])

ErrorTextResolves ==
  \E task \in Suspended({"errText"}) :
    Internal /\ Commit(returnToCaller(Resume(task, "errText")))

ErrorTextRejects ==
  \E task \in Suspended({"errText"}) :
    Internal /\ Commit(catchBlock(Resume(task, "errTextRejected")))

JsonRejects ==
  \E task \in Suspended({"json"}) :
    Internal /\ Commit(catchBlock(Resume(task, "jsonRejected")))

JsonResolvesWith(bodies) ==
  \E task \in Suspended({"json"}), data \in bodies :
    Internal /\ Commit(jsonResolved(
                  Resume(task, IF Has(data, "result") /\ Has(data.result, "status")
                                 THEN "jsonOk" ELSE "jsonNoEnvelope"), data))

JsonResolves == JsonResolvesWith(Bodies)

TitleSent ==
  \E task \in Suspended({"okTitle"}) :
    Internal /\ Commit(setImage(Resume(task, "okTitle")))

\* the last await of fetchDataAndUpdateKey is over: it returns
FetchReturns ==
  \E task \in Suspended({"okImage", "catchTitle", "invTitle"}) :
    Internal /\ Commit(returnToCaller(Resume(task, task.pc)))

\* setTitle('Settings\nRequired') is done: the handler returns
PlaceholderSent ==
  \E task \in Suspended({"reqTitle"}) :
    Internal /\ Commit(Settle(Resume(task, "reqTitle"), "returned"))

Next ==
  \/ WillAppear(Ids, SettingsValues)
  \/ WillDisappear(Ids)
  \/ DidReceiveSettings(Ids, SettingsValues)
  \/ KeyDown(Ids)
  \/ TimerFires
  \/ FetchRejects
  \/ FetchResolves
  \/ ErrorTitleSent
  \/ ErrorTextResolves
  \/ ErrorTextRejects
  \/ JsonRejects
  \/ JsonResolves
  \/ TitleSent
  \/ FetchReturns
  \/ PlaceholderSent

Spec == Init /\ [][Next]_vars

\* The scheduling of the event loop: a timer that is not cleared keeps
\* firing, and every pending fetch, body read, setTitle and setImage settles.
Fairness ==
  /\ \A t \in 1..MaxEvents : WF_vars(TimerFire(t))
  /\ WF_vars(FetchRejects \/ FetchResolves)
  /\ WF_vars(ErrorTitleSent)
  /\ WF_vars(ErrorTextResolves \/ ErrorTextRejects)
  /\ WF_vars(JsonRejects \/ JsonResolves)
  /\ WF_vars(TitleSent)
  /\ WF_vars(FetchReturns)
  /\ WF_vars(PlaceholderSent)

\* One valid and one invalid settings bag.
FewSettings ==
  { [baseUrl |-> "printer.local", pollingInterval |-> 5, displayPrintStatus |-> TRUE],
    EmptyObject }

NextLive ==
  \/ WillAppear(Ids, FewSettings)
  \/ WillDisappear(Ids)
  \/ DidReceiveSettings(Ids, FewSettings)
  \/ KeyDown(Ids)
  \/ TimerFires
  \/ FetchRejects
  \/ FetchResolves
  \/ ErrorTitleSent
  \/ ErrorTextResolves
  \/ ErrorTextRejects
  \/ JsonRejects
  \/ JsonResolves
  \/ TitleSent
  \/ FetchReturns
  \/ PlaceholderSent

SpecLive == Init /\ [][NextLive]_vars /\ Fairness

\* ------------------------------------------------------------------ the display alone
\* A sub-record of the status object: absent, or one of the given values.
Optional(name, values) == {EmptyObject} \cup {name :> v : v \in values}

\* The status objects a server may send: every sub-record and every field
\* inside a sub-record may be missing.
StatusValues ==
  { hb @@ ex @@ ps @@ vs @@ ds :
      hb \in Optional("heater_bed", {[temperature |-> 596, target |-> 600], [target |-> 600]}),
      ex \in Optional("extruder", {[temperature |-> 2044, target |-> 2050], [temperature |-> 2044]}),
      ps \in Optional("print_stats",
                      {EmptyObject, [state |-> "Standby"], [state |-> "idle"],
                       [state |-> "Printing"], [state |-> "PAUSED"], [state |-> "complete"],
                       [state |-> "error"], [state |-> "cancelled"],
                       [state |-> "printing", info |-> [current_layer |-> 12, total_layer |-> 100]],
                       [state |-> "printing", info |-> [current_layer |-> 12]]}),
      vs \in Optional("virtual_sdcard", {EmptyObject, [progress |-> 125]}),
      ds \in Optional("display_status", {[message |-> "Layer 3/10"], [message |-> "layer change"]}) }

ToggleNames ==
  {"displayBedTemp", "displayHotendTemp", "displayPrintStatus", "displayPrintProgress",
   "displayLayerInfo"}

\* Valid settings with every combination of the five toggles.
RenderSettings ==
  LET base == [baseUrl |-> "printer.local", pollingInterval |-> 5]
  IN {[f \in on |-> TRUE] @@ base : on \in SUBSET ToggleNames}
       \cup {[f \in ToggleNames |-> FALSE] @@ base}

RenderBodies == {[result |-> [status |-> status]] : status \in StatusValues}

\* A polling instance whose tick has fetched and got an ok response.
InitRender ==
  \E settings \in RenderSettings :
    /\ actionStates = ("a" :> [settings |-> settings, timerId |-> 1])
    /\ timers = <<[id |-> "a", period |-> 5000, active |-> TRUE]>>
    /\ tasks = SetToBag({[kind |-> "tick", id |-> "a", settings |-> settings, pc |-> "json",
                          nfetch |-> 1, npresent |-> 0, icon |-> DefaultImage]})
    /\ last = [Step("fetchOk", "a", NoTimer, EmptyObject) EXCEPT !.kind = "tick"]
    /\ events = 1

NextRender ==
  \/ JsonResolvesWith(RenderBodies)
  \/ TitleSent
  \/ FetchReturns

SpecRender == InitRender /\ [][NextRender]_vars

\* ------------------------------------------------------------------ the request alone
\* Valid settings with base addresses with and without scheme and trailing
\* slashes, and with port and API key absent, empty or set.
RequestSettings ==
  { [baseUrl |-> baseUrl, pollingInterval |-> 5] @@ port @@ apiKey :
      baseUrl \in {"printer.local", "printer.local/", "printer.local//", "http://10.0.0.2",
                   "http://10.0.0.2/", "https://pi/", "HTTP://pi", "ftp://pi"},
      port \in Optional("port", {"", "7125"}),
      apiKey \in Optional("apiKey", {"", "k"}) }

\* A polling instance: its initial fetch failed and its timer was created.
InitRequest ==
  \E settings \in RequestSettings :
    /\ actionStates = ("a" :> [settings |-> settings, timerId |-> 1])
    /\ timers = <<[id |-> "a", period |-> 5000, active |-> TRUE]>>
    /\ tasks = EmptyBag
    /\ last = [Step("catchTitle", "a", 1, EmptyObject)
                 EXCEPT !.kind = "appear", !.result = "returned", !.nfetch = 1,
                        !.npresent = 1]
    /\ events = 1

NextRequest ==
  \/ TimerFires
  \/ FetchRejects
  \/ FetchReturns

SpecRequest == InitRequest /\ [][NextRequest]_vars

\* Two instances of the action on the deck.
BothIds == {"a", "b"}

NextIso ==
  \/ WillAppear(BothIds, FewSettings)
  \/ WillDisappear(BothIds)
  \/ DidReceiveSettings(BothIds, FewSettings)
  \/ KeyDown(BothIds)
  \/ TimerFires
  \/ FetchRejects
  \/ FetchResolves
  \/ ErrorTitleSent
  \/ ErrorTextResolves
  \/ ErrorTextRejects
  \/ JsonRejects
  \/ JsonResolves
  \/ TitleSent
  \/ FetchReturns
  \/ PlaceholderSent

SpecIso == Init /\ [][NextIso]_vars

TypeOK ==
  /\ DOMAIN actionStates \subseteq Ids
  /\ \A id \in DOMAIN actionStates : actionStates[id].timerId \in 0..Len(timers)
  /\ Len(timers) <= MaxEvents
  /\ BagCardinality(tasks) <= MaxTasks

\* ------------------------------------------------------------------ derived state
ActiveTimers(id) == {t \in 1..Len(timers) : timers[t].id = id /\ timers[t].active}

\* A timer that still fires but is not the one its instance record names.
StaleTimer(t) ==
  /\ t \in 1..Len(timers)
  /\ timers[t].active
  /\ \/ timers[t].id \notin DOMAIN actionStates
     \/ actionStates[timers[t].id].timerId # t

\* The fetches awaiting their response for an instance.
InFlight(id) == {task \in BagToSet(tasks) : task.pc = "fetch" /\ task.id = id}

HostEvents == {"appear", "settings", "disappear", "keydown"}

\* Validity as the specification words it: a non-empty base address and an
\* interval greater than zero.
SpecValid(settings) ==
  /\ Has(settings, "baseUrl") /\ settings.baseUrl # ""
  /\ Has(settings, "pollingInterval") /\ settings.pollingInterval > 0

\* ------------------------------------------------------------------ claims
\* C1: a timer callback that fires while the record names another timer, or
\* while its instance has no record, fetches nothing, presents nothing and
\* changes no state.
C1_StaleTickDoesNothing ==
  [][(last'.ev = "tick" /\ StaleTimer(last'.timer))
       => /\ UNCHANGED <<actionStates, timers, tasks>>
          /\ ~last'.fetched
          /\ last'.titles = <<>> /\ last'.images = <<>>]_vars

\* a stale timer has fired while its instance has a record
C1_Witness ==
  /\ last.ev = "tick" /\ StaleTimer(last.timer)
  /\ last.id \in DOMAIN actionStates

\* C2: every instance has at most one timer that was created and not
\* cancelled.
C2_AtMostOneActiveTimer == \A id \in Ids : Cardinality(ActiveTimers(id)) <= 1

\* C3: an instance without a record has no uncancelled timer.
C3_NoRecordNoTimer == \A id \in Ids : id \notin DOMAIN actionStates => ActiveTimers(id) = {}

\* C4: a record that holds a timer handle holds valid settings.
C4_TimerOnlyWithValidSettings ==
  \A id \in DOMAIN actionStates :
    actionStates[id].timerId # NoTimer => SpecValid(actionStates[id].settings)

C6_NoOverlappingFetches ==
  \A id \in Ids :
    /\ \A task \in InFlight(id) : CopiesIn(task, tasks) = 1
    /\ \A t1, t2 \in InFlight(id) : t1 # t2 => {t1.kind, t2.kind} = {"keydown", "tick"}

\* C7: settings-changed for a known instance stores exactly the new settings
\* and cancels the timer the record held; a cancelled timer stays cancelled
\* and never fires.
C7_SettingsChangedReplacesAndCancels ==
  [][/\ (last'.ev = "settings" /\ events' # events /\ last'.id \in DOMAIN actionStates)
          => /\ actionStates'[last'.id].settings = last'.settings
             /\ actionStates'[last'.id].timerId = NoTimer
             /\ LET old == actionStates[last'.id].timerId
                IN old # NoTimer => ~timers'[old].active
     /\ \A t \in 1..Len(timers) :
          ~timers[t].active
            => /\ ~timers'[t].active
               /\ ~(last'.ev = "tick" /\ last'.timer = t /\ last' # last)]_vars

\* settings-changed has cancelled the timer of a known instance
C7_Witness ==
  /\ last.ev = "settings" /\ last.id \in DOMAIN actionStates
  /\ actionStates[last.id].settings = last.settings
  /\ \E t \in 1..Len(timers) : timers[t].id = last.id /\ ~timers[t].active

\* C8 as stated: a manual trigger on a known instance issues a fetch.
C8_Original_KnownTriggerFetches ==
  (last.ev = "keydown" /\ last.id \in DOMAIN actionStates) => last.fetched

\* C8 (amended): a manual trigger leaves records and timers unchanged; on a
\* known instance with valid stored settings it issues exactly one fetch with
\* those settings and the cycle ends after a present; with invalid stored
\* settings it issues no fetch and presents 'Settings Invalid'; on an id
\* with no record it does nothing.
C8_ManualTrigger ==
  [][/\ (last'.ev = "keydown" /\ events' # events)
          => /\ UNCHANGED <<actionStates, timers>>
             /\ IF last'.id \in DOMAIN actionStates
                  THEN LET settings == actionStates[last'.id].settings
                       IN IF SpecValid(settings)
                            THEN /\ last'.fetched /\ last'.titles = <<>>
                                 /\ tasks' = tasks (+) SetToBag({
                                      [kind |-> "keydown", id |-> last'.id,
                                       settings |-> settings, pc |-> "fetch", nfetch |-> 1,
                                       npresent |-> 0, icon |-> DefaultImage]})
                            ELSE /\ ~last'.fetched
                                 /\ last'.titles = <<"Settings\nInvalid">>
                  ELSE ~last'.fetched /\ last'.titles = <<>> /\ tasks' = tasks
     /\ (last'.kind = "keydown" /\ last'.ev \notin HostEvents /\ tasks' # tasks)
          => /\ UNCHANGED <<actionStates, timers>>
             /\ ~last'.fetched
             /\ last'.result # "threw"
             /\ last'.result = "returned"
                  => /\ last'.npresent >= 1
                     /\ last'.nfetch = IF last'.ev = "invTitle" THEN 0 ELSE 1]_vars

\* a manual trigger's cycle has completed on an instance that is polling
C8_Witness ==
  /\ last.kind = "keydown" /\ last.result = "returned"
  /\ last.nfetch = 1 /\ last.npresent >= 1
  /\ last.id \in DOMAIN actionStates
  /\ actionStates[last.id].timerId # NoTimer
  /\ timers[actionStates[last.id].timerId].active

\* C9 as stated: only instance-appeared creates a record.
C9_Original_OnlyAppearCreates ==
  [][\A id \in Ids :
       (id \notin DOMAIN actionStates /\ id \in DOMAIN actionStates') => last'.ev = "appear"]_vars

\* C9 (amended): a record is created only by instance-appeared or by
\* settings-changed for an id without a record; a manual trigger or a timer
\* tick for an id without a record creates no record, starts no timer and
\* issues no fetch.
C9_RecordCreation ==
  [][\A id \in Ids :
       id \notin DOMAIN actionStates
         => /\ id \in DOMAIN actionStates'
                 => last'.ev \in {"appear", "settings"} /\ last'.id = id /\ events' # events
            /\ (last'.ev \in {"keydown", "tick"} /\ last'.id = id)
                 => /\ UNCHANGED <<actionStates, timers, tasks>>
                    /\ ~last'.fetched /\ last'.titles = <<>>]_vars

\* settings-changed for an id that never appeared has created its record
C9_Witness ==
  /\ events = 1 /\ last.ev = "settings"
  /\ last.id \in DOMAIN actionStates

FailureSteps ==
  {"fetchRejected", "fetchHttpError", "jsonRejected", "jsonNoEnvelope", "errTextRejected"}

ErrorPlaceholders == {"Fetch\nError"} \cup {"Error:\n" \o ToString(s) : s \in ErrorStatuses}

\* C10: every fetch failure presents an error placeholder and changes no
\* record and no timer; the failed cycle goes on to return to its caller, and
\* a timer callback or manual trigger then settles without an exception.
C10_FailurePresentsAndKeepsState ==
  [][/\ (last'.ev \in FailureSteps /\ tasks' # tasks)
          => /\ UNCHANGED <<actionStates, timers>>
             /\ Len(last'.titles) = 1 /\ last'.titles[1] \in ErrorPlaceholders
             /\ last'.result = "pending"
             /\ \E task \in BagToSet(tasks') :
                  /\ task.pc \in {"errTitle", "catchTitle"}
                  /\ CopiesIn(task, tasks') > CopiesIn(task, tasks)
     /\ (last'.ev \in {"errTitle", "errText", "catchTitle"} /\ tasks' # tasks
           /\ last'.kind \in {"tick", "keydown"})
          => /\ UNCHANGED <<actionStates, timers>>
             /\ last'.titles = <<>>
             /\ last'.result # "threw"]_vars

\* a timer tick's fetch got a 401 and the instance is still polling
C10_Witness ==
  /\ last.ev = "fetchHttpError" /\ last.kind = "tick"
  /\ last.titles = <<"Error:\n401">>
  /\ last.id \in DOMAIN actionStates
  /\ actionStates[last.id].timerId # NoTimer
  /\ timers[actionStates[last.id].timerId].active

\* The titles a failure of each class would put on the key, for the calls
\* that await a response or a body now.
TransportTitles ==
  {catchBlock(Resume(task, "fetchRejected")).last.titles : task \in Suspended({"fetch"})}

HttpErrorTitles ==
  {fetchResolved(Resume(task, "fetchHttpError"), response).last.titles :
     task \in Suspended({"fetch"}), response \in {r \in Responses : ~r.ok}}

ParseTitles ==
  {catchBlock(Resume(task, "jsonRejected")).last.titles : task \in Suspended({"json"})}
    \cup {jsonResolved(Resume(task, "jsonNoEnvelope"), data).last.titles :
            task \in Suspended({"json"}),
            data \in {d \in Bodies : ~Has(d, "result") \/ ~Has(d.result, "status")}}

\* C11: a transport failure, a non-2xx response and a body that cannot be
\* decoded or lacks the result/status envelope are presented differently:
\* no two of the three classes put the same title on the key.
C11_FailureClassesKeptApart ==
  /\ TransportTitles \cap HttpErrorTitles = {}
  /\ HttpErrorTitles \cap ParseTitles = {}
  /\ TransportTitles \cap ParseTitles = {}

PollingUndisturbed(id) ==
  /\ events = MaxEvents
  /\ id \in DOMAIN actionStates
  /\ SpecValid(actionStates[id].settings)
  /\ actionStates[id].timerId # NoTimer
  /\ timers[actionStates[id].timerId].active

\* a tick of the instance's timer has just issued a fetch
TickFetched(id) == last.ev = "tick" /\ last.id = id /\ last.fetched

\* C13: for an instance that stays visible with valid settings and gets no
\* further event, the timer's ticks keep issuing fetches: whatever became of
\* the fetches before, another fetch always follows.
C13_FetchesRecur ==
  \A id \in Ids : [](PollingUndisturbed(id) => []<>TickFetched(id))

\* a tick has issued a fetch while the fetch of the tick before it, which
\* failed, is still presenting its error
C13_Witness ==
  /\ PollingUndisturbed("a") /\ TickFetched("a")
  /\ \E task \in BagToSet(tasks) : task.kind = "tick" /\ task.pc = "catchTitle"

\* updateKeyDisplay has just run
Rendered == last.ev = "jsonOk"

\* C14: for every combination of present and absent sub-records and fields
\* of the status object and every combination of the five toggles,
\* updateKeyDisplay does not throw and the title has at least one line; no
\* line is empty.
C14_RenderTotalNeverBlank ==
  Rendered
    => /\ Len(last.render.lines) >= 1
       /\ \A i \in 1..Len(last.render.lines) : last.render.lines[i] # ""
       /\ last.titles = <<Join(last.render.lines)>>
       /\ last.titles[1] # ""
       /\ \E task \in BagToSet(tasks) : task.pc = "okTitle"

\* a status object with every sub-record, rendered with every toggle off
C14_Witness ==
  /\ Rendered
  /\ \A f \in ToggleNames : ~Toggle(last.render.settings, f)
  /\ DOMAIN last.render.status =
       {"heater_bed", "extruder", "print_stats", "virtual_sdcard", "display_status"}
  /\ Has(last.render.status.print_stats, "state")
  /\ Len(last.render.lines) = 1

\* The reduction as the specification words it.  A line needs its toggle on
\* and its data present; progress and layer need a print that is printing or
\* paused.
ReferenceState(status) ==
  IF Has(status, "print_stats") /\ Has(status.print_stats, "state")
    THEN toLowerCase(status.print_stats.state) ELSE ""

ReferenceLabel(status) ==
  IF ReferenceState(status) = "standby" THEN "Idle" ELSE Capitalize(ReferenceState(status))

ReferenceTemperature(status, settings, toggle, name, prefix) ==
  IF /\ Toggle(settings, toggle) /\ Has(status, name)
     /\ Has(status[name], "temperature") /\ Has(status[name], "target")
    THEN <<prefix \o ToString(MathRound(status[name].temperature)) \o "/"
             \o ToString(MathRound(status[name].target)) \o "°">>
    ELSE <<>>

ReferenceLayer(status) ==
  IF /\ Has(status, "print_stats") /\ Has(status.print_stats, "info")
     /\ Has(status.print_stats.info, "current_layer")
     /\ Has(status.print_stats.info, "total_layer")
    THEN <<"L:" \o ToString(status.print_stats.info.current_layer) \o "/"
             \o ToString(status.print_stats.info.total_layer)>>
    ELSE IF /\ Has(status, "display_status") /\ Has(status.display_status, "message")
            /\ LayerMatch(status.display_status.message) # <<>>
           THEN <<"L:" \o LayerMatch(status.display_status.message)[1] \o "/"
                    \o LayerMatch(status.display_status.message)[2]>>
           ELSE <<>>

ReferenceLines(status, settings) ==
  LET state == ReferenceState(status)
      active == state \in {"printing", "paused"}
      label == IF Toggle(settings, "displayPrintStatus") /\ state # ""
                 THEN <<ReferenceLabel(status)>> ELSE <<>>
      bed == ReferenceTemperature(status, settings, "displayBedTemp", "heater_bed", "B:")
      hotend == ReferenceTemperature(status, settings, "displayHotendTemp", "extruder", "H:")
      progress == IF /\ Toggle(settings, "displayPrintProgress") /\ active
                     /\ Has(status, "virtual_sdcard") /\ Has(status.virtual_sdcard, "progress")
                    THEN <<ToString(MathRound(status.virtual_sdcard.progress)) \o "%">>
                    ELSE <<>>
      layer == IF Toggle(settings, "displayLayerInfo") /\ active
                 THEN ReferenceLayer(status) ELSE <<>>
      lines == label \o bed \o hotend \o progress \o layer
  IN IF lines # <<>> THEN lines
     ELSE IF state # "" THEN <<ReferenceLabel(status)>> ELSE <<"No Data">>

\* C15: the lines updateKeyDisplay produces are those of the reference
\* reduction, for every status object and toggle combination.
C15_LinesEqualReference ==
  Rendered => last.render.lines = ReferenceLines(last.render.status, last.render.settings)

\* Every temperature sub-record that is present has both of its numbers.
TemperaturesComplete(status) ==
  \A name \in {"heater_bed", "extruder"} :
    Has(status, name) => Has(status[name], "temperature") /\ Has(status[name], "target")

\* On status objects whose temperature sub-records are complete the lines
\* are those of the reference reduction.
LinesEqualReferenceWhenComplete ==
  (Rendered /\ TemperaturesComplete(last.render.status))
    => last.render.lines = ReferenceLines(last.render.status, last.render.settings)

\* The icon the specification assigns to a lower-cased print state.
ReferenceIcon(state) ==
  CASE state \in {"standby", "idle"} -> "imgs/actions/moonraker/icon_printer_standby.png"
    [] state = "printing" -> "imgs/actions/moonraker/icon_printer_printing.png"
    [] state = "paused" -> "imgs/actions/moonraker/icon_printer_paused.png"
    [] state = "complete" -> "imgs/actions/moonraker/icon_printer_complete.png"
    [] state = "error" -> "imgs/actions/moonraker/icon_printer_error.png"
    [] OTHER -> DefaultImage

\* C16: the icon updateKeyDisplay selects is the one the lower-cased print
\* state determines, whatever the toggles are: the standby icon for standby
\* and idle, their own icons for printing, paused, complete and error, and
\* the default image for any other or an absent state; that icon, and only
\* it, is then handed to setImage.
C16_IconDependsOnStateOnly ==
  /\ Rendered
       => /\ last.render.image = ReferenceIcon(ReferenceState(last.render.status))
          /\ \A task \in BagToSet(tasks) : task.icon = last.render.image
          /\ last.images = <<>>
  /\ last.ev = "okTitle"
       => \E task \in BagToSet(tasks) : task.pc = "okImage" /\ last.images = <<task.icon>>

\* an idle printer has got the standby icon while the status line is on and
\* the temperature lines are off
C16_Witness ==
  /\ Rendered
  /\ ReferenceState(last.render.status) = "idle"
  /\ last.render.image = "imgs/actions/moonraker/icon_printer_standby.png"
  /\ Toggle(last.render.settings, "displayPrintStatus")
  /\ ~Toggle(last.render.settings, "displayBedTemp")

\* What `${Math.round(x)}` gives for the temperatures of the status objects
\* and for a missing one.
TemperatureTexts ==
  {"NaN"} \cup
    UNION { UNION { {ToString(MathRound(status[name][f])) : f \in DOMAIN status[name]} :
                    name \in {"heater_bed", "extruder"} \cap DOMAIN status } :
            status \in StatusValues }

\* Every bed or hotend line that can be formed from them.
TemperatureLines(prefix) ==
  {prefix \o a \o "/" \o b \o "°" : a \in TemperatureTexts, b \in TemperatureTexts}

\* C17: when the temperature or the target of heater_bed or extruder is
\* absent (the sub-record is missing, or present without that field),
\* updateKeyDisplay produces no bed or hotend line for it, and no line shows
\* NaN in place of a number.
C17_AbsentFieldsSuppressLine ==
  Rendered
    => LET status == last.render.status
           lines == last.render.lines
           Incomplete(name) ==
             ~(Has(status, name) /\ Has(status[name], "temperature")
                 /\ Has(status[name], "target"))
       IN \A i \in 1..Len(lines) :
            /\ Incomplete("heater_bed") => lines[i] \notin TemperatureLines("B:")
            /\ Incomplete("extruder") => lines[i] \notin TemperatureLines("H:")

\* The request as the specification words it: with a port, the base address
\* less one trailing slash, ':' and the port; 'http://' in front unless a
\* scheme is there; the query path; the JSON content type, and the access
\* key when there is one.  An empty port or key counts as none.
ReferenceRequest(settings) ==
  LET port == IF Has(settings, "port") THEN settings.port ELSE ""
      apiKey == IF Has(settings, "apiKey") THEN settings.apiKey ELSE ""
      base == settings.baseUrl
      address == IF port = "" THEN base
                 ELSE IF endsWith(base, "/") THEN dropLast(base) \o ":" \o port
                 ELSE base \o ":" \o port
      scheme == IF startsWith(address, "http://") \/ startsWith(address, "https://")
                  THEN "" ELSE "http://"
  IN [endpoint |-> scheme \o address \o QueryPath,
      headers |-> IF apiKey = "" THEN [h \in {"Content-Type"} |-> "application/json"]
                  ELSE [h \in {"Content-Type", "X-Api-Key"} |->
                          IF h = "X-Api-Key" THEN apiKey ELSE "application/json"]]

\* C18: every fetch is made with the endpoint and headers the specification
\* derives from the settings of the call, which for a tick are the settings
\* stored in the record; building them never fails.
C18_RequestAsSpecified ==
  last.fetched
    => /\ last.id \in DOMAIN actionStates
       /\ last.request = ReferenceRequest(actionStates[last.id].settings)
       /\ \E task \in BagToSet(tasks) :
            task.pc = "fetch" /\ task.settings = actionStates[last.id].settings

\* a base address with two trailing slashes and no scheme, with a port and
\* an API key
C18_Witness ==
  /\ last.fetched
  /\ last.request =
       [endpoint |-> "http://printer.local/:7125" \o QueryPath,
        headers |-> [h \in {"Content-Type", "X-Api-Key"} |->
                       IF h = "X-Api-Key" THEN "k" ELSE "application/json"]]

ReEvaluations == {"appear", "settings"}

\* C19: a re-evaluation with valid settings issues one fetch at once and
\* none later, creates no timer before the fetch-render-present cycle has
\* ended, creates exactly one timer when it has ended, by success or by
\* failure, and, the instance still having its record, stores that timer's
\* identity in the record.
C19_ReEvaluationCycle ==
  [][/\ (last'.ev \in ReEvaluations /\ events' # events /\ SpecValid(last'.settings))
          => /\ last'.fetched /\ last'.result = "pending"
             /\ Len(timers') = Len(timers)
             /\ actionStates'[last'.id].timerId = NoTimer
             /\ tasks' = tasks (+) SetToBag({
                  [kind |-> last'.ev, id |-> last'.id, settings |-> last'.settings,
                   pc |-> "fetch", nfetch |-> 1, npresent |-> 0, icon |-> DefaultImage]})
     /\ (last'.kind \in ReEvaluations /\ last'.ev \notin HostEvents /\ tasks' # tasks
           /\ last'.ev # "reqTitle")
          => /\ ~last'.fetched
             /\ IF last'.result = "pending"
                  THEN UNCHANGED <<actionStates, timers>>
                  ELSE /\ last'.ev \in {"okImage", "errText", "catchTitle"}
                       /\ last'.nfetch = 1 /\ last'.npresent >= 1
                       /\ Len(timers') = Len(timers) + 1
                       /\ SubSeq(timers', 1, Len(timers)) = timers
                       /\ timers'[Len(timers')].id = last'.id
                       /\ timers'[Len(timers')].active
                       /\ last'.timer = Len(timers')
                       /\ last'.id \in DOMAIN actionStates
                            => /\ last'.result = "returned"
                               /\ actionStates' =
                                    [actionStates EXCEPT ![last'.id].timerId = Len(timers')]]_vars

\* instance-appeared with valid settings, and nothing else, has run to its
\* end after a failed fetch: one fetch, one timer, the record names it
C19_Witness ==
  /\ events = 1 /\ last.kind = "appear" /\ last.ev = "catchTitle"
  /\ last.result = "returned" /\ last.nfetch = 1
  /\ Len(timers) = 1 /\ last.timer = 1
  /\ actionStates[last.id].timerId = 1

\* C20: the timer a record names runs at the polling interval of the
\* settings the record holds.
C20_TimerRunsAtStoredInterval ==
  \A id \in DOMAIN actionStates :
    actionStates[id].timerId # NoTimer
      => /\ Has(actionStates[id].settings, "pollingInterval")
         /\ timers[actionStates[id].timerId].period
              = actionStates[id].settings.pollingInterval * 1000

\* C21: when a re-evaluation reaches, after its initial fetch, the write of
\* the new timer's identity into the instance record, the record is there:
\* the write never fails and the handler returns without an exception.
C21_HandleWriteFindsRecord ==
  (/\ last.kind \in ReEvaluations
   /\ last.ev \in {"okImage", "errText", "catchTitle"}
   /\ last.result # "pending")
    => /\ last.id \in DOMAIN actionStates
       /\ last.result = "returned"

====
